---- MODULE Spec2Model ----
(***************************************************************************)
(* Model of the ETL routines of Archivos_prueba/functionsETL.py and of the *)
(* driver script Archivos_prueba/mainETL.py.                               *)
(*                                                                         *)
(* A run exercises one routine (variable op) on an input drawn in Init.    *)
(* Text is a sequence of one-character strings, so that str(), zfill(),    *)
(* slicing, int() and float() are computed the way Python computes them.   *)
(***************************************************************************)
EXTENDS Integers, Sequences, FiniteSets, TLC

VARIABLES op, pc,
          num_hour, hour_trx, hour_only,
          lista, idx, ceros_encontrados,
          responsecode, columna_transformada, ceros, debe_ser_uno, debe_ser_cero, resp_result,
          columns, new_column_order, df_reordered, applied, first_order,
          vdf, is_HHMMSS,
          df, df_hour, valid

vars == <<op, pc, num_hour, hour_trx, hour_only,
          lista, idx, ceros_encontrados,
          responsecode, columna_transformada, ceros, debe_ser_uno, debe_ser_cero, resp_result,
          columns, new_column_order, df_reordered, applied, first_order,
          vdf, is_HHMMSS,
          df, df_hour, valid>>

timeVars == <<num_hour, hour_trx, hour_only>>
zeroVars == <<lista, idx, ceros_encontrados>>
respVars == <<responsecode, columna_transformada, ceros, debe_ser_uno, debe_ser_cero, resp_result>>
colsVars == <<columns, new_column_order, df_reordered, applied, first_order>>
validVars == <<vdf, is_HHMMSS>>
mainVars == <<df, df_hour, valid>>

(***************************************************************************)
(* Bounds of the model.                                                    *)
(***************************************************************************)
MaxLen == 3
MaxRows == 2
MaxResp == 4
MaxCols == 5
MaxMainRows == 1

(***************************************************************************)
(* Python text primitives.                                                 *)
(***************************************************************************)
Width == 8

DigitChars == <<"0", "1", "2", "3", "4", "5", "6", "7", "8", "9">>

IsDigit(c) == \E d \in 1..10 : DigitChars[d] = c

DigitVal(c) == (CHOOSE d \in 1..10 : DigitChars[d] = c) - 1

RECURSIVE Digits(_)
Digits(n) == IF n < 10 THEN <<DigitChars[n + 1]>>
             ELSE Digits(n \div 10) \o <<DigitChars[(n % 10) + 1]>>

\* str(int(x)) for a Python int
StrInt(n) == IF n < 0 THEN <<"-">> \o Digits(-n) ELSE Digits(n)

Zeros(k) == [i \in 1..k |-> "0"]

\* Zfill with a fault: the padding is forgotten
Zfill_NoPad(s, width) == s

\* str.zfill(width): the sign, when there is one, stays in front of the padding
Zfill(s, width) ==
    IF Len(s) >= width THEN s
    ELSE IF Len(s) > 0 /\ s[1] \in {"+", "-"}
         THEN <<s[1]>> \o Zeros(width - Len(s)) \o Tail(s)
         ELSE Zeros(width - Len(s)) \o s

\* s[a:b] with 0-based, end-exclusive, clamped indices
Slice(s, a, b) ==
    LET hi == IF b > Len(s) THEN Len(s) ELSE b
    IN  IF a >= hi THEN << >> ELSE SubSeq(s, a + 1, hi)

AllDigits(s) == \A i \in 1..Len(s) : IsDigit(s[i])

RECURSIVE DigitsVal(_)
DigitsVal(s) == IF Len(s) = 0 THEN 0
                ELSE 10 * DigitsVal(SubSeq(s, 1, Len(s) - 1)) + DigitVal(s[Len(s)])

\* int(text): optional sign, then at least one digit; anything else is a ValueError
IntOf(s) ==
    LET signed == Len(s) > 0 /\ s[1] \in {"+", "-"}
        body == IF signed THEN Tail(s) ELSE s
    IN  IF Len(body) > 0 /\ AllDigits(body)
        THEN [ok |-> TRUE,
              v |-> IF signed /\ s[1] = "-" THEN 0 - DigitsVal(body) ELSE DigitsVal(body)]
        ELSE [ok |-> FALSE, v |-> 0]

(***************************************************************************)
(* Time-code decomposer: parse_trx_hour and get_hour.                      *)
(***************************************************************************)
NoTime == [null |-> TRUE, hour |-> 0, minute |-> 0, second |-> 0]
NoHour == [null |-> TRUE, hour |-> 0]

\* parse_trx_hour with a fault: out-of-range fields wrap instead of being rejected
parse_trx_hour_wrap(x) ==
    IF x.null THEN NoTime
    ELSE LET s_hour == Zfill(StrInt(x.v), Width)
             hour == IntOf(Slice(s_hour, 0, 2))
             minute == IntOf(Slice(s_hour, 2, 4))
             second == IntOf(Slice(s_hour, 4, 6))
         IN  IF ~(hour.ok /\ minute.ok /\ second.ok) THEN NoTime
             ELSE [null |-> FALSE, hour |-> hour.v % 24, minute |-> minute.v % 60,
                   second |-> second.v % 60]

parse_trx_hour(x) ==
    IF x.null THEN NoTime
    ELSE LET s_hour == Zfill(StrInt(x.v), Width)
             hour == IntOf(Slice(s_hour, 0, 2))
             minute == IntOf(Slice(s_hour, 2, 4))
             second == IntOf(Slice(s_hour, 4, 6))
         IN  IF ~(hour.ok /\ minute.ok /\ second.ok) THEN NoTime
             ELSE IF ~(0 <= hour.v /\ hour.v <= 23 /\ 0 <= minute.v /\ minute.v <= 59
                       /\ 0 <= second.v /\ second.v <= 59)
                  THEN NoTime
                  ELSE [null |-> FALSE, hour |-> hour.v, minute |-> minute.v, second |-> second.v]

\* get_hour with a fault: the hour of the full decomposition, null when that is null
get_hour_of_time(x) ==
    IF parse_trx_hour(x).null THEN NoHour
    ELSE [null |-> FALSE, hour |-> parse_trx_hour(x).hour]

get_hour(x) ==
    IF x.null THEN NoHour
    ELSE LET s_hour == Zfill(StrInt(x.v), Width)
             hour == IntOf(Slice(s_hour, 0, 2))
         IN  IF ~hour.ok THEN NoHour
             ELSE IF ~(0 <= hour.v /\ hour.v <= 23) THEN NoHour
                  ELSE [null |-> FALSE, hour |-> hour.v]

\* The fields the two functions extract from a non-null input
HourField(x) == IntOf(Slice(Zfill(StrInt(x.v), Width), 0, 2))
MinuteField(x) == IntOf(Slice(Zfill(StrInt(x.v), Width), 2, 4))
SecondField(x) == IntOf(Slice(Zfill(StrInt(x.v), Width), 4, 6))

\* Inputs: null, and sign * (extra HH MM SS CC) over the field values below
HourSet == {0, 3, 9, 10, 23, 24, 25, 99}
MinuteSet == {0, 7, 59, 60, 99}
SecondSet == {0, 54, 59, 60}
HundredthSet == {0, 1, 99}
ExtraSet == {0, 1, 12}

TimeInputs ==
    {[null |-> TRUE, v |-> 0]} \cup
    {[null |-> FALSE,
      v |-> sg * (e * 100000000 + h * 1000000 + m * 10000 + s * 100 + c)] :
        sg \in {1, -1}, e \in ExtraSet, h \in HourSet, m \in MinuteSet,
        s \in SecondSet, c \in HundredthSet}

(***************************************************************************)
(* Raw values: Python scalars of a list or of a column cell.               *)
(*   t = "null" is a missing value (NaN/None in a column);                 *)
(*   "int", "float" and "bool" carry n (floats of the model are whole;     *)
(*   neg marks -0.0); "str" carries its characters s; "other" is an object *)
(*   of any other type, n being its identity.                              *)
(***************************************************************************)
Null == [t |-> "null", n |-> 0, neg |-> FALSE, s |-> << >>]
IntV(k) == [t |-> "int", n |-> k, neg |-> FALSE, s |-> << >>]
FloatV(k) == [t |-> "float", n |-> k, neg |-> FALSE, s |-> << >>]
NegZero == [t |-> "float", n |-> 0, neg |-> TRUE, s |-> << >>]
StrV(chars) == [t |-> "str", n |-> 0, neg |-> FALSE, s |-> chars]
BoolV(b) == [t |-> "bool", n |-> IF b THEN 1 ELSE 0, neg |-> FALSE, s |-> << >>]
OtherV(k) == [t |-> "other", n |-> k, neg |-> FALSE, s |-> << >>]

\* isinstance(valor, (int, float)): bool is a subclass of int
IsIntOrFloat(valor) == valor.t \in {"int", "float", "bool"}

IsStr(valor) == valor.t = "str"

\* float(text) over digits, sign and point: [sign] digits [. digits] with at
\* least one digit; anything else is a ValueError. zero: the number is 0.
FloatOf(s) ==
    LET signed == Len(s) > 0 /\ s[1] \in {"+", "-"}
        body == IF signed THEN Tail(s) ELSE s
        points == {i \in 1..Len(body) : body[i] = "."}
        digs == {i \in 1..Len(body) : IsDigit(body[i])}
    IN  IF Cardinality(points) <= 1 /\ digs # {}
           /\ Cardinality(points) + Cardinality(digs) = Len(body)
        THEN [ok |-> TRUE, zero |-> \A i \in digs : body[i] = "0"]
        ELSE [ok |-> FALSE, zero |-> FALSE]

\* The test of one element in the loop of encontrar_ceros
es_cero(valor) ==
    IF IsIntOrFloat(valor) THEN valor.n = 0
    ELSE IF IsStr(valor)
         THEN LET numero_desde_string == FloatOf(valor.s)
              IN  numero_desde_string.ok /\ numero_desde_string.zero
         ELSE FALSE

RECURSIVE encontrar_ceros(_)
encontrar_ceros(l) ==
    IF Len(l) = 0 THEN << >>
    ELSE (IF es_cero(Head(l)) THEN <<Head(l)>> ELSE << >>) \o encontrar_ceros(Tail(l))

ListValues ==
    {IntV(0), IntV(5), FloatV(0), NegZero, FloatV(5),
     StrV(<<"0">>), StrV(<<"0", ".", "0">>), StrV(<<"a", "b", "c">>), StrV(<<"5">>),
     StrV(<<"-", "0">>), StrV(<<".">>),
     BoolV(FALSE), BoolV(TRUE), OtherV(1)}

SeqsUpTo(S, k) == UNION {[1..m -> S] : m \in 0..k}

(***************************************************************************)
(* Response-code normalizer: parse_responsecode.                           *)
(***************************************************************************)
\* Python ==, as unique() and isin() use it on the cells of a column
PyEq(a, b) ==
    \/ IsIntOrFloat(a) /\ IsIntOrFloat(b) /\ a.n = b.n
    \/ a.t = "str" /\ b.t = "str" /\ a.s = b.s
    \/ a.t = "other" /\ b.t = "other" /\ a.n = b.n

notna(v) == v.t # "null"

RECURSIVE dropna(_)
dropna(col) ==
    IF Len(col) = 0 THEN << >>
    ELSE (IF notna(Head(col)) THEN <<Head(col)>> ELSE << >>) \o dropna(Tail(col))

\* Series.unique(): first occurrences, in order
RECURSIVE unique(_)
unique(col) ==
    IF Len(col) = 0 THEN << >>
    ELSE LET front == SubSeq(col, 1, Len(col) - 1)
             last == col[Len(col)]
         IN  IF \E i \in 1..Len(front) : PyEq(front[i], last)
             THEN unique(front)
             ELSE unique(front) \o <<last>>

isin(v, values) == \E i \in 1..Len(values) : PyEq(v, values[i])

mask_uno(col, zs) == [i \in 1..Len(col) |-> notna(col[i]) /\ isin(col[i], zs)]

\* mask_cero with a fault: every non-null row, the zero test forgotten
mask_cero_no_nulos(col, zs) == [i \in 1..Len(col) |-> notna(col[i])]

mask_cero(col, zs) == [i \in 1..Len(col) |-> notna(col[i]) /\ ~isin(col[i], zs)]

\* Series.loc[mask] = k
loc_set(col, mask, k) == [i \in 1..Len(col) |-> IF mask[i] THEN IntV(k) ELSE col[i]]

isna_mask(col) == [i \in 1..Len(col) |-> ~notna(col[i])]

\* int(cell) of astype(int); a cell that has no integer value makes astype raise
CellInt(v) ==
    IF IsIntOrFloat(v) THEN [ok |-> TRUE, v |-> v.n]
    ELSE IF v.t = "str" THEN IntOf(v.s)
         ELSE [ok |-> FALSE, v |-> 0]

astype_int(col) ==
    IF \A i \in 1..Len(col) : CellInt(col[i]).ok
    THEN [null |-> FALSE, col |-> [i \in 1..Len(col) |-> CellInt(col[i]).v]]
    ELSE [null |-> TRUE, col |-> << >>]

RespValues ==
    {Null, IntV(0), IntV(7), IntV(1), FloatV(0),
     StrV(<<"0">>), StrV(<<"0", ".", "0">>), StrV(<<"a", "b", "c">>), BoolV(FALSE)}

(***************************************************************************)
(* Column reshaper: redefine_columns.                                      *)
(***************************************************************************)
MinCols == 3

\* The translation table (the accented letters of the new names written plain)
nuevos_nombres ==
    [k \in {"finaltrxday", "hour_trx", "hour_only", "transactioncode",
            "transactioncodedesc", "responsecode", "responsecodedesc", "transactiontype"} |->
        CASE k = "finaltrxday" -> "Dia"
          [] k = "hour_trx" -> "Hora Transaccion"
          [] k = "hour_only" -> "Hora"
          [] k = "transactioncode" -> "Codigo Transaccion"
          [] k = "transactioncodedesc" -> "Descripcion Transaccion"
          [] k = "responsecode" -> "Transaccion Exitosa"
          [] k = "responsecodedesc" -> "Descripcion Respuesta"
          [] k = "transactiontype" -> "Monetaria"]

\* DataFrame.rename(columns=nuevos_nombres, errors='ignore') on one name
rename(name) == IF name \in DOMAIN nuevos_nombres THEN nuevos_nombres[name] ELSE name

\* last_two_cols with a fault: the two columns taken in the opposite order
last_two_cols_swapped(cols) == <<cols[Len(cols)], cols[Len(cols) - 1]>>

last_two_cols(cols) == Slice(cols, Len(cols) - 2, Len(cols))

remaining_cols(cols) == Slice(cols, 1, Len(cols) - 2)

\* column_order with a fault: the last two columns put back after the remaining ones
column_order_tail(cols) == <<cols[1]>> \o remaining_cols(cols) \o last_two_cols(cols)

column_order(cols) == <<cols[1]>> \o last_two_cols(cols) \o remaining_cols(cols)

NoFrame == [null |-> TRUE, cols |-> << >>]

redefine_columns(cols) ==
    IF Len(cols) < MinCols THEN NoFrame
    ELSE [null |-> FALSE,
          cols |-> [i \in 1..Len(cols) |-> rename(column_order(cols)[i])]]

ColumnNames == {"A", "B", "C", "D", "E", "finaltrxday", "responsecode"}

Range(f) == {f[i] : i \in DOMAIN f}

DistinctSeqsUpTo(S, k) ==
    {q \in SeqsUpTo(S, k) : \A i, j \in 1..Len(q) : i # j => q[i] # q[j]}

(***************************************************************************)
(* Time-code validator: parse_finaltrxhour.                                *)
(***************************************************************************)
\* astype(str) of one cell
astype_str(v) ==
    CASE v.t = "null" -> <<"n", "a", "n">>
      [] v.t = "int" -> StrInt(v.n)
      [] v.t = "float" -> (IF v.neg THEN <<"-", "0">> ELSE StrInt(v.n)) \o <<".", "0">>
      [] v.t = "str" -> v.s
      [] OTHER -> <<"o", "b", "j">>

hour_str(v) == Zfill(astype_str(v), Width)

\* pd.to_numeric(errors='coerce') of a field of at most two characters:
\* [sign] digits [. digits] with at least one digit, else NaN (ok = FALSE).
\* The number is kept in tenths (v10), so that ".5" is 5 and "12" is 120.
to_numeric(f) ==
    LET signed == Len(f) > 0 /\ f[1] \in {"+", "-"}
        body == IF signed THEN Tail(f) ELSE f
        points == {i \in 1..Len(body) : body[i] = "."}
        digs == {i \in 1..Len(body) : IsDigit(body[i])}
        p == IF points = {} THEN Len(body) + 1 ELSE CHOOSE i \in points : TRUE
        whole == DigitsVal(Slice(body, 0, p - 1))
        frac == IF p < Len(body) THEN DigitVal(body[p + 1]) ELSE 0
        mag == 10 * whole + frac
    IN  IF Cardinality(points) <= 1 /\ digs # {}
           /\ Cardinality(points) + Cardinality(digs) = Len(body)
        THEN [ok |-> TRUE, v10 |-> IF signed /\ f[1] = "-" THEN 0 - mag ELSE mag]
        ELSE [ok |-> FALSE, v10 |-> 0]

parsed_hour(v) == to_numeric(Slice(hour_str(v), 0, 2))
parsed_minute(v) == to_numeric(Slice(hour_str(v), 2, 4))
parsed_second(v) == to_numeric(Slice(hour_str(v), 4, 6))
parsed_decimalseconds(v) == to_numeric(Slice(hour_str(v), 6, 8))

\* dropna(subset=[the four parsed columns]): the rows that are kept
kept_rows(col) ==
    {i \in 1..Len(col) : parsed_hour(col[i]).ok /\ parsed_minute(col[i]).ok
                          /\ parsed_second(col[i]).ok /\ parsed_decimalseconds(col[i]).ok}

SetMax(S) == CHOOSE x \in S : \A y \in S : y <= x
SetMin(S) == CHOOSE x \in S : \A y \in S : x <= y

\* hora_valida with a fault: only the maximum is checked
hora_valida_max(col) ==
    LET xs == {parsed_hour(col[i]).v10 : i \in kept_rows(col)}
    IN  SetMax(xs) <= 230

hora_valida(col) ==
    LET xs == {parsed_hour(col[i]).v10 : i \in kept_rows(col)}
    IN  SetMax(xs) <= 230 /\ SetMin(xs) >= 0

minuto_valido(col) ==
    LET xs == {parsed_minute(col[i]).v10 : i \in kept_rows(col)}
    IN  SetMax(xs) <= 590 /\ SetMin(xs) >= 0

segundo_valido(col) ==
    LET xs == {parsed_second(col[i]).v10 : i \in kept_rows(col)}
    IN  SetMax(xs) <= 590 /\ SetMin(xs) >= 0

decimalsegundo_valido(col) ==
    LET xs == {parsed_decimalseconds(col[i]).v10 : i \in kept_rows(col)}
    IN  SetMax(xs) <= 990 /\ SetMin(xs) >= 0

\* d.has: 'finaltrxhour' in df.columns; d.col: the cells of that column
parse_finaltrxhour(d) ==
    IF ~d.has THEN FALSE
    ELSE IF kept_rows(d.col) = {} THEN FALSE
         ELSE hora_valida(d.col) /\ minuto_valido(d.col)
              /\ segundo_valido(d.col) /\ decimalsegundo_valido(d.col)

HourCells ==
    {Null, IntV(0), IntV(3075400), IntV(23595999), IntV(24000000), IntV(600000),
     IntV(6000), IntV(-5), IntV(-12345678), IntV(123456789),
     FloatV(5), FloatV(3075400),
     StrV(<<"a", "b", "c">>), StrV(<<"0", "0", "0", "0", "0", "0", "-", "5">>)}

(***************************************************************************)
(* Pipeline driver: the statements of mainETL.py on the column schema.     *)
(***************************************************************************)
\* The columns of data.csv after the index column; their order is drawn in Init
BaseSchema ==
    <<"finaltrxday", "finaltrxmonth", "finaltrxyear", "finaltrxhour", "channel",
      "devicenameid", "transactioncode", "transactioncodedesc", "responsecode",
      "responsecodedesc", "transactiontype", "transactionvouchernumber">>

Rotate(q, r) == [i \in 1..Len(q) |-> q[((i - 1 + r) % Len(q)) + 1]]

Reverse(q) == [i \in 1..Len(q) |-> q[Len(q) + 1 - i]]

Schemas == {Rotate(BaseSchema, r) : r \in 0..(Len(BaseSchema) - 1)}
           \cup {Reverse(Rotate(BaseSchema, r)) : r \in 0..(Len(BaseSchema) - 1)}

\* df.drop(columns=names): the remaining columns, in order
RECURSIVE drop(_, _)
drop(cols, names) ==
    IF Len(cols) = 0 THEN << >>
    ELSE (IF Head(cols) \in names THEN << >> ELSE <<Head(cols)>>) \o drop(Tail(cols), names)

\* setitem with a fault: a new column goes first
setitem_first(cols, name) == IF name \in Range(cols) THEN cols ELSE <<name>> \o cols

\* df[name] = ...: an existing column keeps its place, a new one goes last
setitem(cols, name) == IF name \in Range(cols) THEN cols ELSE Append(cols, name)

(***************************************************************************)
(* The state machine.                                                      *)
(***************************************************************************)
NullInput == [null |-> TRUE, v |-> 0]
NoColumn == [null |-> TRUE, col |-> << >>]
NoHourFrame == [has |-> FALSE, col |-> << >>]

IdleTime == num_hour = NullInput /\ hour_trx = NoTime /\ hour_only = NoHour
IdleZero == lista = << >> /\ idx = 0 /\ ceros_encontrados = << >>
IdleResp == /\ responsecode = << >> /\ columna_transformada = << >> /\ ceros = << >>
            /\ debe_ser_uno = << >> /\ debe_ser_cero = << >> /\ resp_result = NoColumn
IdleCols == /\ columns = << >> /\ new_column_order = << >> /\ df_reordered = NoFrame
            /\ applied = 0 /\ first_order = << >>
IdleValid == vdf = NoHourFrame /\ is_HHMMSS = FALSE
IdleMain == df = NoFrame /\ df_hour = << >> /\ valid = FALSE

InitTime ==
    /\ op = "time" /\ pc = "t_parse"
    /\ num_hour \in TimeInputs /\ hour_trx = NoTime /\ hour_only = NoHour
    /\ IdleZero /\ IdleResp /\ IdleCols /\ IdleValid /\ IdleMain

InitZero ==
    /\ op = "zeros" /\ pc = "z_loop"
    /\ lista \in SeqsUpTo(ListValues, MaxLen) /\ idx = 1 /\ ceros_encontrados = << >>
    /\ IdleTime /\ IdleResp /\ IdleCols /\ IdleValid /\ IdleMain

InitResp ==
    /\ op = "resp" /\ pc = "r_copy"
    /\ responsecode \in SeqsUpTo(RespValues, MaxResp)
    /\ columna_transformada = << >> /\ ceros = << >>
    /\ debe_ser_uno = << >> /\ debe_ser_cero = << >> /\ resp_result = NoColumn
    /\ IdleTime /\ IdleZero /\ IdleCols /\ IdleValid /\ IdleMain

InitCols ==
    /\ op = "cols" /\ pc = "c_call"
    /\ columns \in DistinctSeqsUpTo(ColumnNames, MaxCols)
    /\ new_column_order = << >> /\ df_reordered = NoFrame /\ applied = 0 /\ first_order = << >>
    /\ IdleTime /\ IdleZero /\ IdleResp /\ IdleValid /\ IdleMain

InitValid ==
    /\ op = "valid" /\ pc = "v_call"
    /\ vdf \in {NoHourFrame} \cup {[has |-> TRUE, col |-> c] : c \in SeqsUpTo(HourCells, MaxRows)}
    /\ is_HHMMSS = FALSE
    /\ IdleTime /\ IdleZero /\ IdleResp /\ IdleCols /\ IdleMain

InitMain ==
    /\ op = "main" /\ pc = "m_drop_channel"
    /\ df \in {[null |-> FALSE, cols |-> c] : c \in Schemas}
    /\ df_hour \in SeqsUpTo(HourCells, MaxMainRows)
    /\ valid = FALSE
    /\ IdleTime /\ IdleZero /\ IdleResp /\ IdleCols /\ IdleValid

Init == InitTime \/ InitZero \/ InitResp \/ InitCols \/ InitValid \/ InitMain

\* ---- time-code decomposer, applied to one value as mainETL.py applies it
ParseTrxHour ==
    /\ op = "time" /\ pc = "t_parse"
    /\ hour_trx' = parse_trx_hour(num_hour)
    /\ pc' = "t_hour"
    /\ UNCHANGED <<op, num_hour, hour_only, zeroVars, respVars, colsVars, validVars, mainVars>>

GetHour ==
    /\ op = "time" /\ pc = "t_hour"
    /\ hour_only' = get_hour(num_hour)
    /\ pc' = "t_done"
    /\ UNCHANGED <<op, num_hour, hour_trx, zeroVars, respVars, colsVars, validVars, mainVars>>

\* ---- encontrar_ceros: one iteration of the for loop, then the return
EncontrarCerosLoop ==
    /\ op = "zeros" /\ pc = "z_loop" /\ idx <= Len(lista)
    /\ ceros_encontrados' = IF es_cero(lista[idx]) THEN Append(ceros_encontrados, lista[idx])
                            ELSE ceros_encontrados
    /\ idx' = idx + 1
    /\ UNCHANGED <<op, pc, lista, timeVars, respVars, colsVars, validVars, mainVars>>

EncontrarCerosReturn ==
    /\ op = "zeros" /\ pc = "z_loop" /\ idx > Len(lista)
    /\ pc' = "z_done"
    /\ UNCHANGED <<op, zeroVars, timeVars, respVars, colsVars, validVars, mainVars>>

\* ---- parse_responsecode, statement by statement
RespCopy ==
    /\ op = "resp" /\ pc = "r_copy"
    /\ columna_transformada' = responsecode
    /\ ceros' = encontrar_ceros(unique(dropna(responsecode)))
    /\ pc' = "r_masks"
    /\ UNCHANGED <<op, responsecode, debe_ser_uno, debe_ser_cero, resp_result,
                   timeVars, zeroVars, colsVars, validVars, mainVars>>

RespMasks ==
    /\ op = "resp" /\ pc = "r_masks"
    /\ debe_ser_uno' = mask_uno(columna_transformada, ceros)
    /\ debe_ser_cero' = mask_cero(columna_transformada, ceros)
    /\ pc' = "r_uno"
    /\ UNCHANGED <<op, responsecode, columna_transformada, ceros, resp_result,
                   timeVars, zeroVars, colsVars, validVars, mainVars>>

RespMarkUno ==
    /\ op = "resp" /\ pc = "r_uno"
    /\ columna_transformada' = loc_set(columna_transformada, debe_ser_uno, 1)
    /\ pc' = "r_cero"
    /\ UNCHANGED <<op, responsecode, ceros, debe_ser_uno, debe_ser_cero, resp_result,
                   timeVars, zeroVars, colsVars, validVars, mainVars>>

RespMarkCero ==
    /\ op = "resp" /\ pc = "r_cero"
    /\ columna_transformada' = loc_set(columna_transformada, debe_ser_cero, 0)
    /\ pc' = "r_nulos"
    /\ UNCHANGED <<op, responsecode, ceros, debe_ser_uno, debe_ser_cero, resp_result,
                   timeVars, zeroVars, colsVars, validVars, mainVars>>

RespMarkNulos ==
    /\ op = "resp" /\ pc = "r_nulos"
    /\ columna_transformada' = loc_set(columna_transformada, isna_mask(columna_transformada), -1)
    /\ pc' = "r_astype"
    /\ UNCHANGED <<op, responsecode, ceros, debe_ser_uno, debe_ser_cero, resp_result,
                   timeVars, zeroVars, colsVars, validVars, mainVars>>

RespReturn ==
    /\ op = "resp" /\ pc = "r_astype"
    /\ resp_result' = astype_int(columna_transformada)
    /\ pc' = "r_done"
    /\ UNCHANGED <<op, responsecode, columna_transformada, ceros, debe_ser_uno, debe_ser_cero,
                   timeVars, zeroVars, colsVars, validVars, mainVars>>

\* ---- redefine_columns, on a dataset and then on its own output
MaxApplications == 2

RedefineColumns ==
    /\ op = "cols" /\ pc = "c_call" /\ applied < MaxApplications
    /\ applied = 0 \/ ~df_reordered.null
    /\ LET cols == IF applied = 0 THEN columns ELSE df_reordered.cols
       IN  /\ new_column_order' = IF Len(cols) < MinCols THEN << >> ELSE column_order(cols)
           /\ df_reordered' = redefine_columns(cols)
           /\ first_order' = IF applied = 0 THEN redefine_columns(cols).cols ELSE first_order
    /\ applied' = applied + 1
    /\ UNCHANGED <<op, pc, columns, timeVars, zeroVars, respVars, validVars, mainVars>>

\* ---- parse_finaltrxhour
ParseFinalTrxHour ==
    /\ op = "valid" /\ pc = "v_call"
    /\ is_HHMMSS' = parse_finaltrxhour(vdf)
    /\ pc' = "v_done"
    /\ UNCHANGED <<op, vdf, timeVars, zeroVars, respVars, colsVars, mainVars>>

\* ---- mainETL.py, statement by statement (a KeyError ends the run: m_raised)
Frame(cols) == [null |-> FALSE, cols |-> cols]

MainDrop(here, names, next) ==
    /\ op = "main" /\ pc = here
    /\ IF names \subseteq Range(df.cols)
       THEN df' = Frame(drop(df.cols, names)) /\ pc' = next
       ELSE df' = df /\ pc' = "m_raised"
    /\ UNCHANGED <<op, df_hour, valid, timeVars, zeroVars, respVars, colsVars, validVars>>

MainSet(here, name, next) ==
    /\ op = "main" /\ pc = here
    /\ df' = Frame(setitem(df.cols, name))
    /\ pc' = next
    /\ UNCHANGED <<op, df_hour, valid, timeVars, zeroVars, respVars, colsVars, validVars>>

MainDropChannel == MainDrop("m_drop_channel", {"channel", "devicenameid"}, "m_drop_month")

MainDropMonthYear == MainDrop("m_drop_month", {"finaltrxmonth", "finaltrxyear"}, "m_validate")

MainValidate ==
    /\ op = "main" /\ pc = "m_validate"
    /\ valid' = parse_finaltrxhour([has |-> "finaltrxhour" \in Range(df.cols), col |-> df_hour])
    /\ pc' = "m_hour_trx"
    /\ UNCHANGED <<op, df, df_hour, timeVars, zeroVars, respVars, colsVars, validVars>>

MainHourTrx == MainSet("m_hour_trx", "hour_trx", "m_hour_only")

MainHourOnly ==
    MainSet("m_hour_only", "hour_only", IF valid THEN "m_drop_hour" ELSE "m_responsecode")

MainDropHour == MainDrop("m_drop_hour", {"finaltrxhour"}, "m_responsecode")

MainResponsecode == MainSet("m_responsecode", "responsecode", "m_transactiontype")

MainTransactionType ==
    /\ op = "main" /\ pc = "m_transactiontype"
    /\ IF "transactiontype" \in Range(df.cols)
       THEN df' = Frame(setitem(df.cols, "transactiontype")) /\ pc' = "m_drop_voucher"
       ELSE df' = df /\ pc' = "m_raised"
    /\ UNCHANGED <<op, df_hour, valid, timeVars, zeroVars, respVars, colsVars, validVars>>

MainDropVoucher == MainDrop("m_drop_voucher", {"transactionvouchernumber"}, "m_redefine")

MainRedefine ==
    /\ op = "main" /\ pc = "m_redefine"
    /\ df' = redefine_columns(df.cols)
    /\ pc' = "m_to_csv"
    /\ UNCHANGED <<op, df_hour, valid, timeVars, zeroVars, respVars, colsVars, validVars>>

MainToCsv ==
    /\ op = "main" /\ pc = "m_to_csv"
    /\ pc' = IF df.null THEN "m_raised" ELSE "m_done"
    /\ UNCHANGED <<op, mainVars, timeVars, zeroVars, respVars, colsVars, validVars>>

Next ==
    \/ ParseTrxHour \/ GetHour
    \/ EncontrarCerosLoop \/ EncontrarCerosReturn
    \/ RespCopy \/ RespMasks \/ RespMarkUno \/ RespMarkCero \/ RespMarkNulos \/ RespReturn
    \/ RedefineColumns
    \/ ParseFinalTrxHour
    \/ MainDropChannel \/ MainDropMonthYear \/ MainValidate \/ MainHourTrx \/ MainHourOnly
    \/ MainDropHour \/ MainResponsecode \/ MainTransactionType \/ MainDropVoucher
    \/ MainRedefine \/ MainToCsv

Spec == Init /\ [][Next]_vars

(***************************************************************************)
(* Properties.                                                             *)
(***************************************************************************)
TimeParsed == op = "time" /\ pc \in {"t_hour", "t_done"}

\* C1: for a non-null integer v in 0..23595999 whose fields HH = v div 1000000,
\* MM = (v div 10000) mod 100 and SS = (v div 100) mod 100 are a valid time of day,
\* parse_trx_hour(v) is exactly the time (HH, MM, SS); the hundredths play no part.
C1_DecomposeValid ==
    (/\ TimeParsed /\ ~num_hour.null
     /\ num_hour.v \in 0..23595999
     /\ (num_hour.v \div 1000000) \in 0..23
     /\ ((num_hour.v \div 10000) % 100) \in 0..59
     /\ ((num_hour.v \div 100) % 100) \in 0..59)
    => hour_trx = [null |-> FALSE,
                   hour |-> num_hour.v \div 1000000,
                   minute |-> (num_hour.v \div 10000) % 100,
                   second |-> (num_hour.v \div 100) % 100]

C1_Witness ==
    /\ TimeParsed /\ ~num_hour.null /\ num_hour.v = 3075401
    /\ hour_trx = [null |-> FALSE, hour |-> 3, minute |-> 7, second |-> 54]

\* C2: for a non-null integer whose extracted hour field is outside 0..23, or whose
\* extracted minute or second field is outside 0..59, parse_trx_hour returns null
\* (no clamped or wrapped time).
C2_OutOfRangeFieldIsNull ==
    (/\ TimeParsed /\ ~num_hour.null
     /\ \/ HourField(num_hour).v \notin 0..23
        \/ MinuteField(num_hour).v \notin 0..59
        \/ SecondField(num_hour).v \notin 0..59)
    => hour_trx = NoTime

C2_Witness ==
    /\ TimeParsed /\ ~num_hour.null /\ num_hour.v = 25075400
    /\ HourField(num_hour).v = 25 /\ hour_trx.null

\* C7: for a non-null integer whose extracted hour field HH is in 0..23, get_hour
\* returns HH whatever the minute and second fields are; and whenever parse_trx_hour
\* returns a time, get_hour returns that time's hour.
C7_HourOnly ==
    (op = "time" /\ pc = "t_done" /\ ~num_hour.null) =>
        /\ HourField(num_hour).v \in 0..23
              => hour_only = [null |-> FALSE, hour |-> HourField(num_hour).v]
        /\ ~hour_trx.null => (~hour_only.null /\ hour_only.hour = hour_trx.hour)

C7_Witness ==
    /\ op = "time" /\ pc = "t_done" /\ ~num_hour.null
    /\ MinuteField(num_hour).v = 60
    /\ hour_trx.null /\ ~hour_only.null /\ hour_only.hour = 23

\* C9: for every integer input that is negative or greater than 99999999,
\* parse_trx_hour returns null.
C9_OutsideEncodableRangeIsNull ==
    (TimeParsed /\ ~num_hour.null /\ (num_hour.v < 0 \/ num_hour.v > 99999999))
    => hour_trx.null

\* A value that is an integer or a float equal to 0, or a text that parses as a
\* number equal to 0 (a boolean, or an object of another type, is neither)
NumericallyZero(v) ==
    \/ v.t \in {"int", "float"} /\ v.n = 0
    \/ v.t = "str" /\ FloatOf(v.s).ok /\ FloatOf(v.s).zero

RECURSIVE Select(_, _)
Select(q, keep) ==
    IF Len(q) = 0 THEN << >>
    ELSE (IF keep[1] THEN <<Head(q)>> ELSE << >>)
         \o Select(Tail(q), [i \in 1..(Len(q) - 1) |-> keep[i + 1]])

\* C4: encontrar_ceros returns, in input order, exactly the elements that are an
\* integer or float equal to 0 or a text that parses as a number equal to 0;
\* values of any other type are excluded.
C4_ExactlyTheZeros ==
    (op = "zeros" /\ pc = "z_done") =>
        ceros_encontrados = Select(lista, [i \in 1..Len(lista) |-> NumericallyZero(lista[i])])

\* The returned column, row by row; a value is in the zero-equivalence set when the
\* zero-value detector keeps it
C3_Rows ==
    (op = "resp" /\ pc = "r_done") =>
        /\ ~resp_result.null
        /\ Len(resp_result.col) = Len(responsecode)
        /\ \A i \in 1..Len(responsecode) :
              resp_result.col[i] = IF responsecode[i].t = "null" THEN -1
                                   ELSE IF es_cero(responsecode[i]) THEN 1 ELSE 0

\* The failure step (columna_transformada.loc[debe_ser_cero] = 0) leaves the 1s
C3_KeepsOnes ==
    (op = "resp" /\ pc = "r_cero") =>
        \A i \in 1..Len(columna_transformada) :
            (debe_ser_uno[i] /\ columna_transformada[i] = IntV(1))
                => columna_transformada'[i] = IntV(1)

C5_Reshape ==
    (op = "cols" /\ applied = 1) =>
        LET n == Len(columns)
        IN  IF n < 3
            THEN df_reordered.null /\ df_reordered.cols = << >> /\ new_column_order = << >>
            ELSE /\ ~df_reordered.null
                 /\ Len(new_column_order) = n /\ Len(df_reordered.cols) = n
                 /\ new_column_order[1] = columns[1]
                 /\ new_column_order[2] = columns[n - 1]
                 /\ new_column_order[3] = columns[n]
                 /\ \A k \in 4..n : new_column_order[k] = columns[k - 2]
                 /\ Range(new_column_order) = Range(columns)
                 /\ \A k \in 1..n :
                       df_reordered.cols[k] =
                           IF new_column_order[k] \in DOMAIN nuevos_nombres
                           THEN nuevos_nombres[new_column_order[k]]
                           ELSE new_column_order[k]

C5_Witness ==
    /\ op = "cols" /\ applied = 1
    /\ columns = <<"A", "responsecode", "C", "D", "E">>
    /\ new_column_order = <<"A", "D", "E", "responsecode", "C">>
    /\ df_reordered = [null |-> FALSE, cols |-> <<"A", "D", "E", "Transaccion Exitosa", "C">>]

NoTableName(cols) == \A i \in 1..Len(cols) : cols[i] \notin DOMAIN nuevos_nombres

\* C6 (as claimed): for every accepted dataset (at least 3 columns, no column name in
\* the translation table), redefine_columns applied to its own output yields a column
\* order different from the order after the first application.
C6_NeverIdempotent ==
    (op = "cols" /\ applied = 2 /\ Len(columns) >= 3 /\ NoTableName(columns))
    => df_reordered.cols # first_order

\* C6 (amended): the same for every dataset of at least 4 columns; with exactly 3
\* columns the second application leaves the order of the first.
C6_NotIdempotentFromFour ==
    /\ (op = "cols" /\ applied = 2 /\ Len(columns) >= 4 /\ NoTableName(columns))
          => (~df_reordered.null /\ df_reordered.cols # first_order)
    /\ (op = "cols" /\ applied = 2 /\ Len(columns) = 3 /\ NoTableName(columns))
          => (~df_reordered.null /\ df_reordered.cols = first_order)

C6_Witness ==
    /\ op = "cols" /\ applied = 2
    /\ columns = <<"A", "B", "C", "D">>
    /\ first_order = <<"A", "C", "D", "B">>
    /\ df_reordered.cols = <<"A", "D", "B", "C">>

\* A row whose four fields parse, and one whose four fields are in range (tenths)
RowParses(v) ==
    /\ parsed_hour(v).ok /\ parsed_minute(v).ok
    /\ parsed_second(v).ok /\ parsed_decimalseconds(v).ok

RowInRange(v) ==
    /\ parsed_hour(v).v10 >= 0 /\ parsed_hour(v).v10 <= 10 * 23
    /\ parsed_minute(v).v10 >= 0 /\ parsed_minute(v).v10 <= 10 * 59
    /\ parsed_second(v).v10 >= 0 /\ parsed_second(v).v10 <= 10 * 59
    /\ parsed_decimalseconds(v).v10 >= 0 /\ parsed_decimalseconds(v).v10 <= 10 * 99

\* C8: parse_finaltrxhour returns true iff the dataset has a 'finaltrxhour' column,
\* at least one row has all four 2-character fields of its zero-padded rendering
\* parseable as numbers, and over those rows every hour is in 0..23, every minute and
\* second in 0..59 and every hundredths field in 0..99 (so it is false for an empty
\* or all-null column, and an unparseable row alone never makes it false).
C8_Validator ==
    (op = "valid" /\ pc = "v_done") =>
        (is_HHMMSS <=>
            /\ vdf.has
            /\ \E i \in 1..Len(vdf.col) : RowParses(vdf.col[i])
            /\ \A i \in 1..Len(vdf.col) : RowParses(vdf.col[i]) => RowInRange(vdf.col[i]))

C8_Witness ==
    /\ op = "valid" /\ pc = "v_done" /\ is_HHMMSS
    /\ vdf.col = <<Null, IntV(3075400)>>

\* The last two columns of the driver's dataset
HourColumnsLast ==
    /\ Len(df.cols) >= 3
    /\ df.cols[Len(df.cols) - 1] = "hour_trx"
    /\ df.cols[Len(df.cols)] = "hour_only"

C10_State ==
    (op = "main") =>
        /\ pc # "m_raised"
        /\ pc \in {"m_drop_hour", "m_responsecode", "m_transactiontype",
                   "m_drop_voucher", "m_redefine"} => HourColumnsLast
        /\ pc \in {"m_to_csv", "m_done"} =>
              /\ ~df.null
              /\ df.cols[2] = "Hora Transaccion"
              /\ df.cols[3] = "Hora"

C10_FirstStays ==
    (op = "main" /\ pc = "m_redefine") =>
        (~df'.null /\ df'.cols[1] = rename(df.cols[1]))

\* C10: in every run of the driver, whichever way the validator answers, the last two
\* columns are 'hour_trx' and 'hour_only', in that order, from the statement that
\* adds 'hour_only' up to the call of redefine_columns; the call keeps the first
\* column first, and the written output has 'Hora Transaccion' and 'Hora' second and
\* third.
C10_HourColumnsSecondAndThird == [](C10_State) /\ [][C10_FirstStays]_vars

C10_Witness ==
    /\ op = "main" /\ pc = "m_done" /\ ~valid
    /\ "finaltrxhour" \in Range(df.cols)
    /\ df.cols[2] = "Hora Transaccion" /\ df.cols[3] = "Hora"

====
